---- MODULE Spec2Model ----
(***************************************************************************)
(* Optimum tracking and evaluation book-keeping of                         *)
(* dragonfly/opt/blackbox_optimiser.py: BlackboxOptimiser (the tracker)    *)
(* and OptInitialiser (the initialiser variant).                           *)
(*                                                                         *)
(* Floats are modelled as integers -1..MaxVal, -np.inf as an integer       *)
(* below every one of them, points as 1 and 2 and None as 0.  A qinfo      *)
(* is a record whose DOMAIN is the set of attributes it carries, so that   *)
(* hasattr(qinfo, 'fidel') is "fidel" \in DOMAIN qinfo.                    *)
(***************************************************************************)
EXTENDS Integers, Sequences, FiniteSets, TLC

\* ----------------------------------------------------------------- bounds
MaxVal == 0       \* values are -1..MaxVal
MaxEvals == 2     \* records one run processes, seeded ones included
MaxBeyond == 1    \* updates of a long run beyond the reporting window
MaxMinority == 2  \* records of the rarer fidelity in a long run

\* -------------------------------------------------------------- constants
NegInf == -100
NonePoint == 0
Unset == "unset"
fidel_to_opt == "high"

Vals == -1..MaxVal
Points == {1, 2}
Fidels == {"low", "high"}

QInfosSF == [point : Points, val : Vals, true_val : Vals]
QInfosTagged == [point : Points, val : Vals, true_val : Vals, fidel : Fidels]
QInfosMF == QInfosSF \cup QInfosTagged

SeqsUpTo(S, n) == UNION {[1..k -> S] : k \in 0..n}

VARIABLES
  cls,                    \* class of the object: "BlackboxOptimiser" | "OptInitialiser"
  is_mf,                  \* self.func_caller.is_mf()
  is_an_mf_method,        \* self.is_an_mf_method()
  curr_opt_val,
  curr_opt_point,
  curr_true_opt_val,
  curr_true_opt_point,
  num_fidel_to_opt_calls,
  history,
  prev_eval_points,
  prev_eval_vals,
  prev_eval_true_vals,
  prev_eval_fidels,
  prev_qinfos,            \* self.options.prev_evaluations.qinfos once replayed
  query_qinfos,           \* the qinfos handed to the update hook since set up
  pc,                     \* "failed" | "setup" | "seeded" | "running"
  call,                   \* the last method called on the object
  raised,                 \* the exception it raised, "None" if it returned
  ret                     \* the value it returned, "None" if none

vars == <<cls, is_mf, is_an_mf_method, curr_opt_val, curr_opt_point,
          curr_true_opt_val, curr_true_opt_point, num_fidel_to_opt_calls,
          history, prev_eval_points, prev_eval_vals, prev_eval_true_vals,
          prev_eval_fidels, prev_qinfos, query_qinfos, pc, call, raised, ret>>

\* ------------------------------------------------------- object as a value
Self ==
  [curr_opt_val |-> curr_opt_val, curr_opt_point |-> curr_opt_point,
   curr_true_opt_val |-> curr_true_opt_val,
   curr_true_opt_point |-> curr_true_opt_point,
   num_fidel_to_opt_calls |-> num_fidel_to_opt_calls,
   history |-> history,
   prev_eval_points |-> prev_eval_points, prev_eval_vals |-> prev_eval_vals,
   prev_eval_true_vals |-> prev_eval_true_vals,
   prev_eval_fidels |-> prev_eval_fidels,
   raised |-> "None"]

Store(s) ==
  /\ curr_opt_val' = s.curr_opt_val
  /\ curr_opt_point' = s.curr_opt_point
  /\ curr_true_opt_val' = s.curr_true_opt_val
  /\ curr_true_opt_point' = s.curr_true_opt_point
  /\ num_fidel_to_opt_calls' = s.num_fidel_to_opt_calls
  /\ history' = s.history
  /\ prev_eval_points' = s.prev_eval_points
  /\ prev_eval_vals' = s.prev_eval_vals
  /\ prev_eval_true_vals' = s.prev_eval_true_vals
  /\ prev_eval_fidels' = s.prev_eval_fidels

HasAttr(qinfo, attr) == attr \in DOMAIN qinfo

\* an exception is on its way to the caller: the rest of the method is skipped
Raising(s) == s.raised # "None"

\* reading an attribute the qinfo does not carry
AttributeError(s) == [s EXCEPT !.raised = "AttributeError"]

\* func_caller.is_fidel_to_opt
is_fidel_to_opt(fidel) == fidel = fidel_to_opt

\* variant: a record without fidel counts as taken at another fidelity
EvalFidelDefaultLow(qinfo) == IF HasAttr(qinfo, "fidel") THEN qinfo.fidel ELSE "low"

\* qinfo.fidel if hasattr(qinfo, 'fidel') else self.func_caller.fidel_to_opt
EvalFidel(qinfo) == IF HasAttr(qinfo, "fidel") THEN qinfo.fidel ELSE fidel_to_opt

\* variant: every call counts
BoolToIntAlwaysOne(b) == 1

\* bool added to an int
BoolToInt(b) == IF b THEN 1 ELSE 0

\* ------------------------------------------------------------------ set up
\* variant: the history keeps the list of prior points of the object
BlackboxOptimiseSetUpKeepingPrev(s, mf) ==
  [s EXCEPT
     !.curr_opt_val = NegInf,
     !.curr_opt_point = NonePoint,
     !.curr_true_opt_val = NegInf,
     !.curr_true_opt_point = NonePoint,
     !.history =
        IF mf
        THEN [query_vals |-> <<>>, query_true_vals |-> <<>>,
              curr_opt_vals |-> <<>>, curr_opt_points |-> <<>>,
              curr_true_opt_vals |-> <<>>, curr_true_opt_points |-> <<>>,
              query_at_fidel_to_opts |-> <<>>,
              prev_eval_points |-> s.prev_eval_points, prev_eval_vals |-> <<>>]
        ELSE [query_vals |-> <<>>, query_true_vals |-> <<>>,
              curr_opt_vals |-> <<>>, curr_opt_points |-> <<>>,
              curr_true_opt_vals |-> <<>>, curr_true_opt_points |-> <<>>,
              prev_eval_points |-> s.prev_eval_points, prev_eval_vals |-> <<>>],
     !.prev_eval_vals = <<>>,
     !.prev_eval_true_vals = <<>>]

\* BlackboxOptimiser._blackbox_optimise_set_up
BlackboxOptimiseSetUp(s, mf) ==
  [s EXCEPT
     !.curr_opt_val = NegInf,
     !.curr_opt_point = NonePoint,
     !.curr_true_opt_val = NegInf,
     !.curr_true_opt_point = NonePoint,
     !.history =
        IF mf
        THEN [query_vals |-> <<>>, query_true_vals |-> <<>>,
              curr_opt_vals |-> <<>>, curr_opt_points |-> <<>>,
              curr_true_opt_vals |-> <<>>, curr_true_opt_points |-> <<>>,
              query_at_fidel_to_opts |-> <<>>,
              prev_eval_points |-> <<>>, prev_eval_vals |-> <<>>]
        ELSE [query_vals |-> <<>>, query_true_vals |-> <<>>,
              curr_opt_vals |-> <<>>, curr_opt_points |-> <<>>,
              curr_true_opt_vals |-> <<>>, curr_true_opt_points |-> <<>>,
              prev_eval_points |-> <<>>, prev_eval_vals |-> <<>>],
     !.prev_eval_vals = <<>>,
     !.prev_eval_true_vals = <<>>]

\* BlackboxOptimiser._exd_child_set_up (the method's _opt_method_set_up
\* touches nothing of the tracker)
ExdChildSetUp(s, mf) ==
  LET s1 == IF mf THEN [s EXCEPT !.num_fidel_to_opt_calls = 0] ELSE s
      s2 == BlackboxOptimiseSetUp(s1, mf)
  IN  [s2 EXCEPT !.prev_eval_vals = <<>>]

\* the attributes the parent class gives a new object before it calls
\* _exd_child_set_up: an empty history namespace and empty prev_eval lists
NewObject ==
  [curr_opt_val |-> Unset, curr_opt_point |-> Unset,
   curr_true_opt_val |-> Unset, curr_true_opt_point |-> Unset,
   num_fidel_to_opt_calls |-> Unset,
   history |-> <<>>,
   prev_eval_points |-> <<>>, prev_eval_vals |-> <<>>,
   prev_eval_true_vals |-> Unset, prev_eval_fidels |-> <<>>,
   raised |-> "None"]

\* ExperimentDesigner.__init__ running the set up of the child class
DriverSetUp(mf) == ExdChildSetUp(NewObject, mf)

\* variant: no configuration check
NeverCalledMFWithSFCaller(method_mf, caller_mf) == FALSE

\* the configuration check of a multi-fidelity method
CalledMFWithSFCaller(method_mf, caller_mf) == method_mf /\ ~caller_mf

Init ==
  /\ cls \in {"BlackboxOptimiser", "OptInitialiser"}
  /\ is_mf \in BOOLEAN
  /\ is_an_mf_method \in BOOLEAN
  /\ cls = "OptInitialiser" => is_an_mf_method = is_mf
  /\ LET s == DriverSetUp(is_mf) IN
       /\ curr_opt_val = s.curr_opt_val
       /\ curr_opt_point = s.curr_opt_point
       /\ curr_true_opt_val = s.curr_true_opt_val
       /\ curr_true_opt_point = s.curr_true_opt_point
       /\ num_fidel_to_opt_calls = s.num_fidel_to_opt_calls
       /\ history = s.history
       /\ prev_eval_points = s.prev_eval_points
       /\ prev_eval_vals = s.prev_eval_vals
       /\ prev_eval_true_vals = s.prev_eval_true_vals
       /\ prev_eval_fidels = s.prev_eval_fidels
  /\ prev_qinfos = <<>>
  /\ query_qinfos = <<>>
  /\ call = "__init__"
  /\ ret = "None"
  /\ IF CalledMFWithSFCaller(is_an_mf_method, is_mf)
     THEN pc = "failed" /\ raised = "CalledMFOptimiserWithSFCaller"
     ELSE pc = "setup" /\ raised = "None"

\* ----------------------------------------------------------- book-keeping
\* variant: the true optimum is looked at only when the observed one moved
UpdateOptPointAndValCoupled(s, qinfo, query_is_at_fidel_to_opt) ==
  IF query_is_at_fidel_to_opt # <<>> /\ ~query_is_at_fidel_to_opt[1]
  THEN s
  ELSE IF qinfo.val > s.curr_opt_val
       THEN LET s1 == [s EXCEPT !.curr_opt_val = qinfo.val,
                                !.curr_opt_point = qinfo.point]
            IN  IF qinfo.true_val > s1.curr_true_opt_val
                THEN [s1 EXCEPT !.curr_true_opt_val = qinfo.true_val,
                                !.curr_true_opt_point = qinfo.point]
                ELSE s1
       ELSE s

\* variant: the record always becomes the optimum
UpdateOptPointAndValLastWins(s, qinfo, query_is_at_fidel_to_opt) ==
  IF query_is_at_fidel_to_opt # <<>> /\ ~query_is_at_fidel_to_opt[1]
  THEN s
  ELSE [s EXCEPT !.curr_opt_val = qinfo.val,
                 !.curr_opt_point = qinfo.point,
                 !.curr_true_opt_val = qinfo.true_val,
                 !.curr_true_opt_point = qinfo.point]

\* variant: >= in place of >
UpdateOptPointAndValGeq(s, qinfo, query_is_at_fidel_to_opt) ==
  IF query_is_at_fidel_to_opt # <<>> /\ ~query_is_at_fidel_to_opt[1]
  THEN s
  ELSE LET s1 == IF qinfo.val >= s.curr_opt_val
                 THEN [s EXCEPT !.curr_opt_val = qinfo.val,
                                !.curr_opt_point = qinfo.point]
                 ELSE s
       IN  IF qinfo.true_val >= s1.curr_true_opt_val
           THEN [s1 EXCEPT !.curr_true_opt_val = qinfo.true_val,
                           !.curr_true_opt_point = qinfo.point]
           ELSE s1

\* variant: the fidelity of the record is not looked at
UpdateOptPointAndValNoGate(s, qinfo, query_is_at_fidel_to_opt) ==
  LET s1 == IF qinfo.val > s.curr_opt_val
            THEN [s EXCEPT !.curr_opt_val = qinfo.val,
                           !.curr_opt_point = qinfo.point]
            ELSE s
  IN  IF qinfo.true_val > s1.curr_true_opt_val
      THEN [s1 EXCEPT !.curr_true_opt_val = qinfo.true_val,
                      !.curr_true_opt_point = qinfo.point]
      ELSE s1

\* variant: an optimum that is set is never replaced
UpdateOptPointAndValFirstOnly(s, qinfo, query_is_at_fidel_to_opt) ==
  IF query_is_at_fidel_to_opt # <<>> /\ ~query_is_at_fidel_to_opt[1]
  THEN s
  ELSE LET s1 == IF s.curr_opt_point = NonePoint
                 THEN [s EXCEPT !.curr_opt_val = qinfo.val,
                                !.curr_opt_point = qinfo.point]
                 ELSE s
       IN  IF s1.curr_true_opt_point = NonePoint
           THEN [s1 EXCEPT !.curr_true_opt_val = qinfo.true_val,
                           !.curr_true_opt_point = qinfo.point]
           ELSE s1

\* variant: the point of a new true optimum is written to curr_opt_point
UpdateOptPointAndValOnePoint(s, qinfo, query_is_at_fidel_to_opt) ==
  IF query_is_at_fidel_to_opt # <<>> /\ ~query_is_at_fidel_to_opt[1]
  THEN s
  ELSE LET s1 == IF qinfo.val > s.curr_opt_val
                 THEN [s EXCEPT !.curr_opt_val = qinfo.val,
                                !.curr_opt_point = qinfo.point]
                 ELSE s
       IN  IF qinfo.true_val > s1.curr_true_opt_val
           THEN [s1 EXCEPT !.curr_true_opt_val = qinfo.true_val,
                           !.curr_opt_point = qinfo.point]
           ELSE s1

\* BlackboxOptimiser._update_opt_point_and_val; the optional argument is
\* <<>> for None and <<b>> for the boolean b
UpdateOptPointAndVal(s, qinfo, query_is_at_fidel_to_opt) ==
  IF query_is_at_fidel_to_opt # <<>> /\ ~query_is_at_fidel_to_opt[1]
  THEN s
  ELSE IF ~HasAttr(qinfo, "val") THEN AttributeError(s)
  ELSE LET s1 == IF qinfo.val > s.curr_opt_val
                 THEN [s EXCEPT !.curr_opt_val = qinfo.val,
                                !.curr_opt_point = qinfo.point]
                 ELSE s
       IN  IF ~HasAttr(qinfo, "true_val") THEN AttributeError(s1)
           ELSE IF qinfo.true_val > s1.curr_true_opt_val
           THEN [s1 EXCEPT !.curr_true_opt_val = qinfo.true_val,
                           !.curr_true_opt_point = qinfo.point]
           ELSE s1

\* variant: the snapshot is put in front of the lists
AppendCurrOptInFront(s) ==
  [s EXCEPT
     !.history.curr_opt_vals = <<s.curr_opt_val>> \o @,
     !.history.curr_opt_points = <<s.curr_opt_point>> \o @,
     !.history.curr_true_opt_vals = <<s.curr_true_opt_val>> \o @,
     !.history.curr_true_opt_points = <<s.curr_true_opt_point>> \o @]

\* variant: the points of the snapshot are not appended
AppendCurrOptValsOnly(s) ==
  [s EXCEPT
     !.history.curr_opt_vals = Append(@, s.curr_opt_val),
     !.history.curr_true_opt_vals = Append(@, s.curr_true_opt_val)]

\* lines 98-101: the snapshot of the optimum appended to the history
AppendCurrOpt(s) ==
  IF Raising(s) THEN s ELSE
  [s EXCEPT
     !.history.curr_opt_vals = Append(@, s.curr_opt_val),
     !.history.curr_opt_points = Append(@, s.curr_opt_point),
     !.history.curr_true_opt_vals = Append(@, s.curr_true_opt_val),
     !.history.curr_true_opt_points = Append(@, s.curr_true_opt_point)]

\* variant: the snapshot is taken before the record is looked at
ExdChildUpdateHistoryStale(s, qinfo, mf) ==
  IF mf
  THEN LET query_is_at_fidel_to_opt == is_fidel_to_opt(EvalFidel(qinfo))
           s1 == AppendCurrOpt(
                   [s EXCEPT
                      !.history.query_at_fidel_to_opts =
                          Append(@, query_is_at_fidel_to_opt),
                      !.num_fidel_to_opt_calls =
                          @ + BoolToInt(query_is_at_fidel_to_opt)])
       IN  UpdateOptPointAndVal(s1, qinfo, <<query_is_at_fidel_to_opt>>)
  ELSE UpdateOptPointAndVal(AppendCurrOpt(s), qinfo, <<>>)

\* BlackboxOptimiser._exd_child_update_history (_opt_method_update_history
\* passes)
ExdChildUpdateHistory(s, qinfo, mf) ==
  IF mf
  THEN LET eval_fidel == EvalFidel(qinfo)
           query_is_at_fidel_to_opt == is_fidel_to_opt(eval_fidel)
           s1 == [s EXCEPT
                    !.history.query_at_fidel_to_opts =
                        Append(@, query_is_at_fidel_to_opt),
                    !.num_fidel_to_opt_calls =
                        @ + BoolToInt(query_is_at_fidel_to_opt)]
       IN  AppendCurrOpt(
             UpdateOptPointAndVal(s1, qinfo, <<query_is_at_fidel_to_opt>>))
  ELSE AppendCurrOpt(UpdateOptPointAndVal(s, qinfo, <<>>))

\* the driver copying qinfo.val and qinfo.true_val into the history lists
\* named by to_copy_from_qinfo_to_history (lines 67-68); a missing
\* attribute is an error handed to the caller
CopyFromQinfoToHistory(s, qinfo) ==
  IF Raising(s) THEN s
  ELSE IF ~HasAttr(qinfo, "val") THEN AttributeError(s)
  ELSE LET s1 == [s EXCEPT !.history.query_vals = Append(@, qinfo.val)]
       IN  IF ~HasAttr(qinfo, "true_val") THEN AttributeError(s1)
           ELSE [s1 EXCEPT !.history.query_true_vals = Append(@, qinfo.true_val)]

\* the update hook of the driver, once per completed evaluation: the
\* optimum first, then the values and the snapshot
UpdateHistory(s, qinfo, mf) ==
  CopyFromQinfoToHistory(ExdChildUpdateHistory(s, qinfo, mf), qinfo)

\* records handed to the update hook one by one
RECURSIVE UpdateAll(_, _, _)
UpdateAll(s, qinfos, mf) ==
  IF qinfos = <<>> THEN s
  ELSE UpdateAll(UpdateHistory(s, Head(qinfos), mf), Tail(qinfos), mf)

\* variant: a replayed record is taken without looking at its fidelity
HandlePrevEvalNoGate(s, qinfo, mf) ==
  LET s2 == IF mf
            THEN UpdateOptPointAndVal(
                   [s EXCEPT !.prev_eval_fidels = Append(@, EvalFidel(qinfo))],
                   qinfo, <<>>)
            ELSE UpdateOptPointAndVal(s, qinfo, <<>>)
  IN  [s2 EXCEPT !.prev_eval_points = Append(@, qinfo.point),
                 !.prev_eval_vals = Append(@, qinfo.val)]

\* one turn of the loop of _exd_child_handle_prev_evals (lines 165-174)
HandlePrevEval(s, qinfo, mf) ==
  LET s2 == IF mf
            THEN LET eval_fidel == EvalFidel(qinfo)
                     s1 == [s EXCEPT !.prev_eval_fidels = Append(@, eval_fidel)]
                     query_is_at_fidel_to_opt == is_fidel_to_opt(eval_fidel)
                 IN  UpdateOptPointAndVal(s1, qinfo, <<query_is_at_fidel_to_opt>>)
            ELSE UpdateOptPointAndVal(s, qinfo, <<>>)
  IN  IF Raising(s2) THEN s2
      ELSE LET s3 == [s2 EXCEPT !.prev_eval_points = Append(@, qinfo.point)]
           IN  IF ~HasAttr(qinfo, "val") THEN AttributeError(s3)
               ELSE [s3 EXCEPT !.prev_eval_vals = Append(@, qinfo.val)]

RECURSIVE HandlePrevEvalsLoop(_, _, _)
HandlePrevEvalsLoop(s, qinfos, mf) ==
  IF qinfos = <<>> \/ Raising(s) THEN s
  ELSE HandlePrevEvalsLoop(HandlePrevEval(s, Head(qinfos), mf), Tail(qinfos), mf)

\* BlackboxOptimiser._exd_child_handle_prev_evals
ExdChildHandlePrevEvals(s, qinfos, mf) ==
  LET s1 == HandlePrevEvalsLoop(s, qinfos, mf)
  IN  IF Raising(s1) THEN s1
      ELSE [s1 EXCEPT !.history.prev_eval_points = s1.prev_eval_points,
                      !.history.prev_eval_vals = s1.prev_eval_vals]

\* ---------------------------------------------------------------- actions
QInfos == IF is_mf THEN QInfosMF ELSE QInfosSF

Fixed == UNCHANGED <<cls, is_mf, is_an_mf_method>>

\* the driver hands one completed evaluation to the tracker
Update ==
  /\ pc \in {"setup", "seeded", "running"}
  /\ Len(prev_qinfos) + Len(query_qinfos) < MaxEvals
  /\ \E qinfo \in QInfos :
       /\ Store(UpdateHistory(Self, qinfo, is_mf))
       /\ query_qinfos' = Append(query_qinfos, qinfo)
  /\ pc' = "running"
  /\ call' = "_exd_child_update_history"
  /\ raised' = "None"
  /\ ret' = "None"
  /\ UNCHANGED prev_qinfos
  /\ Fixed

\* the driver replays options.prev_evaluations, before any evaluation
Seed ==
  /\ pc = "setup"
  /\ cls = "BlackboxOptimiser"
  /\ \E qinfos \in SeqsUpTo(QInfos, MaxEvals) :
       /\ Store(ExdChildHandlePrevEvals(Self, qinfos, is_mf))
       /\ prev_qinfos' = qinfos
  /\ pc' = "seeded"
  /\ call' = "_exd_child_handle_prev_evals"
  /\ raised' = "None"
  /\ ret' = "None"
  /\ UNCHANGED query_qinfos
  /\ Fixed

\* the methods OptInitialiser overrides to raise ValueError
InitialiserGuarded ==
  {"_exd_child_handle_prev_evals", "_get_initial_qinfos",
   "_determine_next_query", "_determine_next_batch_of_queries"}

\* variant: the batch selection is not overridden
InitialiserRaisesButBatch(method) ==
  IF method \in InitialiserGuarded \ {"_determine_next_batch_of_queries"}
  THEN "ValueError" ELSE "None"

\* OptInitialiser: 'No reason to call this method in an initialiser.'
InitialiserRaises(method) ==
  IF method \in InitialiserGuarded THEN "ValueError" ELSE "None"

UnchangedObject ==
  UNCHANGED <<curr_opt_val, curr_opt_point, curr_true_opt_val,
              curr_true_opt_point, num_fidel_to_opt_calls, history,
              prev_eval_points, prev_eval_vals, prev_eval_true_vals,
              prev_eval_fidels, prev_qinfos, query_qinfos, pc>>

InitialiserCall(method) ==
  /\ pc \in {"setup", "running"}
  /\ cls = "OptInitialiser"
  /\ call' = method
  /\ raised' = InitialiserRaises(method)
  /\ ret' = "None"
  /\ UnchangedObject
  /\ Fixed

HandlePrevEvalsOnInitialiser == InitialiserCall("_exd_child_handle_prev_evals")
GetInitialQinfos == InitialiserCall("_get_initial_qinfos")
DetermineNextQuery == InitialiserCall("_determine_next_query")
DetermineNextBatchOfQueries == InitialiserCall("_determine_next_batch_of_queries")

Next ==
  \/ Update
  \/ Seed
  \/ HandlePrevEvalsOnInitialiser
  \/ GetInitialQinfos
  \/ DetermineNextQuery
  \/ DetermineNextBatchOfQueries

Spec == Init /\ [][Next]_vars

\* -------------------------------------------------------------- reporting
\* the window of _get_exd_child_report_results_str
window_length == 20

\* seq[-n:]
LastN(seq, n) == IF Len(seq) <= n THEN seq ELSE SubSeq(seq, Len(seq) - n + 1, Len(seq))

\* sum of a list of booleans
RECURSIVE SumBools(_)
SumBools(seq) == IF seq = <<>> THEN 0 ELSE BoolToInt(Head(seq)) + SumBools(Tail(seq))

\* '%0.5f' % v.  A value v of the model stands for the float v * 6e-6; the
\* result is the printed decimal counted in steps of 1e-5 (the nearest
\* step, 6 * v never lying half way between two steps), -inf printing as
\* -inf.
Fmt5(v) == IF v = NegInf THEN NegInf ELSE (6 * v + 5) \div 10

\* BlackboxOptimiser._get_opt_method_header_str
GetOptMethodHeaderStr == <<>>

\* BlackboxOptimiser._get_exd_child_header_str, the string as the list of
\* its labels
GetExdChildHeaderStr(s, mf) ==
  LET ret0 == <<"curr_max=<current_maximum_value>">>
      ret1 == IF mf
              THEN ret0 \o <<", f2o=<#queries_at_highest_fidelity>",
                             "(<#queries_at_highest_fidelity_in_last_20_iterations>)">>
              ELSE ret0
  IN  ret1 \o GetOptMethodHeaderStr

\* variant: the line shows the true optimum
ReportResultsStrOfTrueOpt(s, mf) ==
  IF mf
  THEN [curr_max |-> Fmt5(s.curr_true_opt_val),
        f2o |-> s.num_fidel_to_opt_calls,
        in_window |-> SumBools(LastN(s.history.query_at_fidel_to_opts, window_length)),
        of_window |-> window_length]
  ELSE [curr_max |-> Fmt5(s.curr_true_opt_val)]

\* variant: the window is the whole history
ReportResultsStrOfAll(s, mf) ==
  IF mf
  THEN [curr_max |-> Fmt5(s.curr_opt_val),
        f2o |-> s.num_fidel_to_opt_calls,
        in_window |-> SumBools(s.history.query_at_fidel_to_opts),
        of_window |-> window_length]
  ELSE [curr_max |-> Fmt5(s.curr_opt_val)]

\* BlackboxOptimiser._get_exd_child_report_results_str, the string as the
\* record of the numbers it prints: 'curr_max=%0.5f' and, in multi-fidelity
\* mode, ', #f2o=%d(%d/%d)'; _get_opt_method_report_results_str adds ''
BlackboxReportResultsStr(s, mf) ==
  IF mf
  THEN LET window_queries_at_f2o ==
             LastN(s.history.query_at_fidel_to_opts, window_length)
       IN  [curr_max |-> Fmt5(s.curr_opt_val),
            f2o |-> s.num_fidel_to_opt_calls,
            in_window |-> SumBools(window_queries_at_f2o),
            of_window |-> window_length]
  ELSE [curr_max |-> Fmt5(s.curr_opt_val)]

\* OptInitialiser._get_exd_child_report_results_str returns ''
GetExdChildReportResultsStr(s, mf, class) ==
  IF class = "OptInitialiser" THEN <<>> ELSE BlackboxReportResultsStr(s, mf)

Running == pc \in {"setup", "seeded", "running"}

\* header()
Header ==
  /\ Running
  /\ call' = "_get_exd_child_header_str"
  /\ raised' = "None"
  /\ ret' = GetExdChildHeaderStr(Self, is_mf)
  /\ UnchangedObject
  /\ Fixed

\* status_line()
StatusLine ==
  /\ Running
  /\ call' = "_get_exd_child_report_results_str"
  /\ raised' = "None"
  /\ ret' = GetExdChildReportResultsStr(Self, is_mf, cls)
  /\ UnchangedObject
  /\ Fixed

\* a run with progress reports; the method is multi-fidelity exactly when
\* its caller is
InitReport == Init /\ is_an_mf_method = is_mf

NextReport ==
  \/ Update
  \/ Seed
  \/ Header
  \/ StatusLine

SpecReport == InitReport /\ [][NextReport]_vars

\* records lacking val, true_val or both
LackingSF ==
  [point : Points] \cup [point : Points, val : Vals]
    \cup [point : Points, true_val : Vals]

LackingTagged ==
  [point : Points, fidel : Fidels] \cup [point : Points, val : Vals, fidel : Fidels]
    \cup [point : Points, true_val : Vals, fidel : Fidels]

Lacking == IF is_mf THEN LackingSF \cup LackingTagged ELSE LackingSF

IsLacking(qinfo) == ~HasAttr(qinfo, "val") \/ ~HasAttr(qinfo, "true_val")

\* the run ends when an exception reaches the driver
AfterCall(s, next) == IF Raising(s) THEN "crashed" ELSE next

\* an update with any record, well formed or not
UpdateAny ==
  /\ Running
  /\ Len(prev_qinfos) + Len(query_qinfos) < MaxEvals
  /\ \E qinfo \in QInfos \cup Lacking :
       LET s == UpdateHistory(Self, qinfo, is_mf) IN
         /\ Store(s)
         /\ raised' = s.raised
         /\ pc' = AfterCall(s, "running")
         /\ query_qinfos' = Append(query_qinfos, qinfo)
  /\ call' = "_exd_child_update_history"
  /\ ret' = "None"
  /\ UNCHANGED prev_qinfos
  /\ Fixed

\* a replay of prior records, well formed or not
SeedAny ==
  /\ pc = "setup"
  /\ \E qinfos \in SeqsUpTo(QInfos \cup Lacking, MaxEvals) :
       LET s == ExdChildHandlePrevEvals(Self, qinfos, is_mf) IN
         /\ Store(s)
         /\ raised' = s.raised
         /\ pc' = AfterCall(s, "seeded")
         /\ prev_qinfos' = qinfos
  /\ call' = "_exd_child_handle_prev_evals"
  /\ ret' = "None"
  /\ UNCHANGED query_qinfos
  /\ Fixed

InitAny == Init /\ cls = "BlackboxOptimiser" /\ is_an_mf_method = is_mf

NextAny ==
  \/ UpdateAny
  \/ SeedAny

SpecAny == InitAny /\ [][NextAny]_vars

\* ---------------------------------------------------- the tracker by itself
\* a BlackboxOptimiser of either mode, seeded at most once and updated
InitOrder == Init /\ cls = "BlackboxOptimiser" /\ is_an_mf_method = is_mf

NextOrder ==
  \/ Update
  \/ Seed

SpecOrder == InitOrder /\ [][NextOrder]_vars

\* ------------------------------------------------------------ set up again
\* _exd_child_set_up run on a tracker that has been used; the run is over
SetUpAgain ==
  /\ Running
  /\ Store(ExdChildSetUp(Self, is_mf))
  /\ pc' = "resetup"
  /\ call' = "_exd_child_set_up"
  /\ raised' = "None"
  /\ ret' = "None"
  /\ UNCHANGED <<prev_qinfos, query_qinfos>>
  /\ Fixed

InitSetUp == Init /\ is_an_mf_method = is_mf

NextSetUp ==
  \/ Update
  \/ Seed
  \/ SetUpAgain

SpecSetUp == InitSetUp /\ [][NextSetUp]_vars

\* ------------------------------------------------------------- initialiser
\* BlackboxOptimiser._get_final_return_quantities
GetFinalReturnQuantities(s) == <<s.curr_opt_val, s.curr_opt_point, s.history>>

\* the driver's run to completion: it evaluates the batch it was given,
\* hands each evaluation to the update hook and returns the final
\* quantities; the budget it ran with is kept next to the result
RunExperiments(s, max_capital, batch, mf) ==
  LET s1 == UpdateAll(s, batch, mf)
  IN  [state |-> s1,
       returned |-> [driver |-> "run_experiments", max_capital |-> max_capital,
                     result |-> GetFinalReturnQuantities(s1)]]

\* BlackboxOptimiser.optimise
Optimise(s, max_capital, batch, mf) == RunExperiments(s, max_capital, batch, mf)

\* variant: a budget of one
InitialiseWithBudget(s, batch, mf) == Optimise(s, 1, batch, mf)

\* OptInitialiser.initialise
Initialise(s, batch, mf) == Optimise(s, 0, batch, mf)

\* OptInitialiser.is_asynchronous
is_asynchronous == TRUE

\* OptInitialiser.is_an_mf_method
is_an_mf_method_of_initialiser(caller_is_mf) == caller_is_mf

InitialiseCall ==
  /\ pc = "setup"
  /\ cls = "OptInitialiser"
  /\ \E batch \in SeqsUpTo(QInfos, MaxEvals) :
       LET r == Initialise(Self, batch, is_mf) IN
         /\ Store(r.state)
         /\ ret' = r.returned
         /\ query_qinfos' = query_qinfos \o batch
  /\ pc' = "running"
  /\ call' = "initialise"
  /\ raised' = "None"
  /\ UNCHANGED prev_qinfos
  /\ Fixed

IsAsynchronousCall ==
  /\ Running
  /\ cls = "OptInitialiser"
  /\ call' = "is_asynchronous"
  /\ raised' = "None"
  /\ ret' = is_asynchronous
  /\ UnchangedObject
  /\ Fixed

IsAnMfMethodCall ==
  /\ Running
  /\ cls = "OptInitialiser"
  /\ call' = "is_an_mf_method"
  /\ raised' = "None"
  /\ ret' = is_an_mf_method_of_initialiser(is_mf)
  /\ UnchangedObject
  /\ Fixed

InitInitialiser == Init /\ cls = "OptInitialiser"

NextInitialiser ==
  \/ InitialiseCall
  \/ IsAsynchronousCall
  \/ IsAnMfMethodCall

SpecInitialiser == InitInitialiser /\ [][NextInitialiser]_vars

\* a long multi-fidelity run: one point, one value, the fidelity varying,
\* the rarer of the two fidelities given at most MaxMinority times
WindowQInfos == {[point |-> 1, val |-> 0, true_val |-> 0, fidel |-> f] : f \in Fidels}

NumAtFidel(qinfos, f) == Cardinality({i \in DOMAIN qinfos : qinfos[i].fidel = f})

UpdateWindow ==
  /\ Running
  /\ Len(query_qinfos) < window_length + MaxBeyond
  /\ \E qinfo \in WindowQInfos :
       /\ \E f \in Fidels :
            NumAtFidel(Append(query_qinfos, qinfo), f) <= MaxMinority
       /\ Store(UpdateHistory(Self, qinfo, is_mf))
       /\ query_qinfos' = Append(query_qinfos, qinfo)
  /\ pc' = "running"
  /\ call' = "_exd_child_update_history"
  /\ raised' = "None"
  /\ ret' = "None"
  /\ UNCHANGED prev_qinfos
  /\ Fixed

InitWindow == Init /\ cls = "BlackboxOptimiser" /\ is_mf /\ is_an_mf_method

NextWindow ==
  \/ UpdateWindow
  \/ StatusLine

SpecWindow == InitWindow /\ [][NextWindow]_vars

\* ------------------------------------------------- vocabulary of the claims
\* the records replayed by seeding followed by the records of the updates
Processed == prev_qinfos \o query_qinfos

\* a record counts for the optimum: any record in single-fidelity mode, a
\* record at the target fidelity (or carrying none) in multi-fidelity mode
Eligible(qinfo) == ~is_mf \/ EvalFidel(qinfo) = fidel_to_opt

SetMax(S) == IF S = {} THEN NegInf ELSE CHOOSE m \in S : \A x \in S : x <= m

ValsOf(qinfos) == {qinfos[i].val : i \in {j \in DOMAIN qinfos : Eligible(qinfos[j])}}
TrueValsOf(qinfos) ==
  {qinfos[i].true_val : i \in {j \in DOMAIN qinfos : Eligible(qinfos[j])}}

\* the point of the first eligible record whose value is the largest one
FirstBestPoint(qinfos) ==
  LET best == {i \in DOMAIN qinfos :
                 Eligible(qinfos[i]) /\ qinfos[i].val = SetMax(ValsOf(qinfos))}
  IN  IF best = {} THEN NonePoint
      ELSE qinfos[CHOOSE i \in best : \A j \in best : i <= j].point

FirstBestTruePoint(qinfos) ==
  LET best == {i \in DOMAIN qinfos :
                 Eligible(qinfos[i])
                 /\ qinfos[i].true_val = SetMax(TrueValsOf(qinfos))}
  IN  IF best = {} THEN NonePoint
      ELSE qinfos[CHOOSE i \in best : \A j \in best : i <= j].point

PerStepNames ==
  {"query_vals", "query_true_vals", "curr_opt_vals", "curr_opt_points",
   "curr_true_opt_vals", "curr_true_opt_points"}
    \cup (IF is_mf THEN {"query_at_fidel_to_opts"} ELSE {})

\* a step that is one update call, and the record it was given
IsUpdateStep == Len(query_qinfos') = Len(query_qinfos) + 1
LastQuery == query_qinfos[Len(query_qinfos)]

Alive == pc # "failed"

\* ---------------------------------------------------------------------- C1
\* C1: in single-fidelity mode, after every update, curr_opt_val is the
\* maximum of the val fields of all records processed so far and
\* curr_true_opt_val the maximum of their true_val fields, each on its own.
C1_SingleFidelityMax ==
  (Alive /\ ~is_mf) =>
     /\ curr_opt_val = SetMax({Processed[i].val : i \in DOMAIN Processed})
     /\ curr_true_opt_val =
           SetMax({Processed[i].true_val : i \in DOMAIN Processed})

\* the last update raised the observed optimum and not the true one
C1_Witness ==
  /\ ~is_mf
  /\ Len(query_qinfos) >= 2
  /\ LET n == Len(query_qinfos) IN
       /\ history.curr_opt_vals[n] > history.curr_opt_vals[n - 1]
       /\ history.curr_true_opt_vals[n] = history.curr_true_opt_vals[n - 1]
       /\ curr_opt_point # curr_true_opt_point

\* ---------------------------------------------------------------------- C2
\* C2: in multi-fidelity mode an update whose record is not at the target
\* fidelity leaves the four optimum fields unchanged and still adds one
\* entry to every per-step history sequence; so the optimum fields change
\* only on updates whose record is at the target fidelity.
C2_OffTargetKeepsOptimum ==
  [][(is_mf /\ IsUpdateStep /\ ~is_fidel_to_opt(EvalFidel(LastQuery')))
       => /\ UNCHANGED <<curr_opt_val, curr_opt_point,
                         curr_true_opt_val, curr_true_opt_point>>
          /\ \A name \in PerStepNames :
               Len(history'[name]) = Len(history[name]) + 1
          /\ history'.query_vals = Append(history.query_vals, LastQuery'.val)
          /\ history'.query_at_fidel_to_opts =
                Append(history.query_at_fidel_to_opts, FALSE)]_vars

\* a low-fidelity record above the optimum of its time has been processed
C2_Witness ==
  /\ is_mf
  /\ \E i \in DOMAIN query_qinfos :
       /\ ~is_fidel_to_opt(EvalFidel(query_qinfos[i]))
       /\ query_qinfos[i].val > history.curr_opt_vals[i]
       /\ history.curr_opt_vals[i] > NegInf

\* ---------------------------------------------------------------------- C3
\* C3: in multi-fidelity mode, after any number of updates,
\* num_fidel_to_opt_calls is the number of the updates' records at the
\* target fidelity, which is the number of true entries of
\* history.query_at_fidel_to_opts.
C3_TargetFidelityCount ==
  (Alive /\ is_mf) =>
     /\ num_fidel_to_opt_calls =
          Cardinality({i \in DOMAIN query_qinfos :
                         is_fidel_to_opt(EvalFidel(query_qinfos[i]))})
     /\ num_fidel_to_opt_calls =
          Cardinality({i \in DOMAIN history.query_at_fidel_to_opts :
                         history.query_at_fidel_to_opts[i]})

\* some updates were at the target fidelity and some were not
C3_Witness ==
  /\ is_mf
  /\ num_fidel_to_opt_calls >= 1
  /\ num_fidel_to_opt_calls < Len(query_qinfos)

\* ---------------------------------------------------------------------- C4
\* C4: after every update all per-step history sequences have the same
\* length, the number of update calls since set up, seeding not counted.
C4_EqualLengths ==
  Alive => \A name \in PerStepNames : Len(history[name]) = Len(query_qinfos)

\* records were seeded and updates followed
C4_Witness ==
  /\ Len(prev_qinfos) >= 1
  /\ Len(query_qinfos) >= 1
  /\ Len(history.curr_true_opt_points) = Len(query_qinfos)

\* ---------------------------------------------------------------------- C5
OptimumOf(s) ==
  <<s.curr_opt_val, s.curr_opt_point, s.curr_true_opt_val, s.curr_true_opt_point>>

JustSeeded == pc = "seeded" /\ query_qinfos = <<>>

SeedingKeepsHistory ==
  /\ \A name \in PerStepNames : Len(history[name]) = 0
  /\ Len(history.prev_eval_points) = Len(prev_qinfos)
  /\ Len(history.prev_eval_vals) = Len(prev_qinfos)

\* C5 as stated: seeding leaves the optimum fields and, in multi-fidelity
\* mode, num_fidel_to_opt_calls as updates with the same records would,
\* adds nothing to the per-step sequences, and leaves K prior points/values.
C5_SeedLikeUpdateWithCount ==
  JustSeeded =>
     LET u == UpdateAll(DriverSetUp(is_mf), prev_qinfos, is_mf) IN
       /\ OptimumOf(Self) = OptimumOf(u)
       /\ is_mf => num_fidel_to_opt_calls = u.num_fidel_to_opt_calls
       /\ SeedingKeepsHistory

\* C5 amended: seeding leaves the four optimum fields as updates with the
\* same records in the same order would, but leaves num_fidel_to_opt_calls
\* at 0 (only updates are counted); it adds nothing to the per-step
\* sequences and leaves K prior points and K prior values.
C5_SeedLikeUpdate ==
  JustSeeded =>
     LET u == UpdateAll(DriverSetUp(is_mf), prev_qinfos, is_mf) IN
       /\ OptimumOf(Self) = OptimumOf(u)
       /\ is_mf => num_fidel_to_opt_calls = 0
       /\ SeedingKeepsHistory

\* a multi-fidelity seeding with a record at and a record off the target
C5_Witness ==
  /\ JustSeeded
  /\ is_mf
  /\ Len(prev_qinfos) = 2
  /\ ~is_fidel_to_opt(EvalFidel(prev_qinfos[1]))
  /\ is_fidel_to_opt(EvalFidel(prev_qinfos[2]))
  /\ prev_qinfos[1].val > prev_qinfos[2].val
  /\ curr_opt_val = prev_qinfos[2].val

\* ---------------------------------------------------------------------- C6
\* C6: from set up through seeding and the updates, curr_opt_val and
\* curr_true_opt_val never decrease from one step to the next.
C6_NonDecreasing ==
  [][curr_opt_val' >= curr_opt_val /\ curr_true_opt_val' >= curr_true_opt_val]_vars

\* an eligible record below the optimum was processed by an update
C6_Witness ==
  \E i \in DOMAIN query_qinfos :
     /\ Eligible(query_qinfos[i])
     /\ query_qinfos[i].val < history.curr_opt_vals[i]
     /\ query_qinfos[i].true_val < history.curr_true_opt_vals[i]

\* ---------------------------------------------------------------------- C7
\* C7: a record whose val equals curr_opt_val never replaces
\* curr_opt_point, one whose true_val equals curr_true_opt_val never
\* replaces curr_true_opt_point: of the eligible records with the largest
\* value, seeded or updated, the first one processed keeps the point.
C7_FirstSeenWins ==
  /\ [](Alive => /\ curr_opt_point = FirstBestPoint(Processed)
                 /\ curr_true_opt_point = FirstBestTruePoint(Processed))
  /\ [][IsUpdateStep =>
          /\ LastQuery'.val = curr_opt_val => curr_opt_point' = curr_opt_point
          /\ LastQuery'.true_val = curr_true_opt_val
                => curr_true_opt_point' = curr_true_opt_point]_vars

\* two eligible records at other points tie at the optimum, the second one
\* given to an update
C7_Witness ==
  /\ Len(query_qinfos) >= 1
  /\ \E i \in DOMAIN Processed :
       LET q == LastQuery IN
         /\ i < Len(Processed)
         /\ Eligible(Processed[i]) /\ Eligible(q)
         /\ Processed[i].val = curr_opt_val /\ q.val = curr_opt_val
         /\ Processed[i].true_val = curr_true_opt_val
         /\ q.true_val = curr_true_opt_val
         /\ Processed[i].point # q.point

\* ---------------------------------------------------------------------- C8
\* the seeded records followed by the first i records of the updates
UpTo(i) == prev_qinfos \o SubSeq(query_qinfos, 1, i)

\* C8: on every update, skipped for its fidelity or not, the entries
\* appended to the four running-optimum sequences are the optimum after the
\* record was considered: entry i of curr_opt_vals is the largest value of
\* the eligible seeded records and the eligible ones of the first i
\* updates, and the last entry is curr_opt_val.
C8_RunningOptimum ==
  Alive =>
    /\ \A i \in DOMAIN query_qinfos :
         /\ history.curr_opt_vals[i] = SetMax(ValsOf(UpTo(i)))
         /\ history.curr_opt_points[i] = FirstBestPoint(UpTo(i))
         /\ history.curr_true_opt_vals[i] = SetMax(TrueValsOf(UpTo(i)))
         /\ history.curr_true_opt_points[i] = FirstBestTruePoint(UpTo(i))
    /\ query_qinfos # <<>> =>
         LET n == Len(query_qinfos) IN
           /\ history.curr_opt_vals[n] = curr_opt_val
           /\ history.curr_opt_points[n] = curr_opt_point
           /\ history.curr_true_opt_vals[n] = curr_true_opt_val
           /\ history.curr_true_opt_points[n] = curr_true_opt_point

\* the last update was skipped for its fidelity and its entry repeats the
\* optimum of an earlier record
C8_Witness ==
  /\ is_mf
  /\ Len(Processed) >= 2
  /\ query_qinfos # <<>>
  /\ ~Eligible(LastQuery)
  /\ history.curr_opt_vals[Len(query_qinfos)] > NegInf
  /\ history.curr_opt_vals[Len(query_qinfos)] # LastQuery.val

\* ---------------------------------------------------------------------- C9
\* C9 as stated: on OptInitialiser the update path, the handling of prior
\* evaluations and the selection of the next query or batch all fail with
\* ValueError.
C9_InitialiserAllRaise ==
  (cls = "OptInitialiser"
     /\ call \in InitialiserGuarded \cup {"_exd_child_update_history"})
    => raised = "ValueError"

\* C9 amended: on OptInitialiser the handling of prior evaluations, the
\* initial queries and the selection of the next query or batch fail with
\* ValueError in every state; the update path is the inherited one, it
\* returns and appends its entry to the history.
C9_InitialiserGuardedRaise ==
  cls = "OptInitialiser" =>
    /\ call \in InitialiserGuarded => raised = "ValueError"
    /\ call = "_exd_child_update_history" =>
         /\ raised = "None"
         /\ Len(history.curr_opt_vals) = Len(query_qinfos)
         /\ query_qinfos # <<>>

\* the batch selection was called on an initialiser that has seen a record
C9_Witness ==
  /\ cls = "OptInitialiser"
  /\ call = "_determine_next_batch_of_queries"
  /\ raised = "ValueError"
  /\ query_qinfos # <<>>

ObjectFields ==
  <<curr_opt_val, curr_opt_point, curr_true_opt_val, curr_true_opt_point,
    num_fidel_to_opt_calls, history, prev_eval_points, prev_eval_vals,
    prev_eval_true_vals, prev_eval_fidels>>

IsReportStep ==
  call' \in {"_get_exd_child_header_str", "_get_exd_child_report_results_str"}

ReportsKeepState == [][IsReportStep => UNCHANGED ObjectFields]_vars

\* the printed decimal (steps of 1e-5) is the same number as the value v
\* (units of 6e-6)
SameNumber(printed, v) ==
  IF v = NegInf THEN printed = NegInf
  ELSE printed # NegInf /\ 10 * printed = 6 * v

\* the printed decimal is within half a step of 1e-5 of the value v
RoundedNumber(printed, v) ==
  IF v = NegInf THEN printed = NegInf
  ELSE /\ printed # NegInf
       /\ 10 * printed - 6 * v <= 5
       /\ 6 * v - 10 * printed <= 5

\* C11 as stated: header and status_line change neither the optimum nor the
\* history, and the current maximum status_line reports is curr_opt_val.
C11_ReportsCurrOptVal ==
  /\ ReportsKeepState
  /\ [](call = "_get_exd_child_report_results_str"
          => /\ "curr_max" \in DOMAIN ret
             /\ SameNumber(ret.curr_max, curr_opt_val))

\* C11 amended: header and status_line change neither the optimum nor the
\* history, in both modes; on the tracker the current maximum status_line
\* reports is curr_opt_val of the moment of the call rounded to five
\* decimals (-inf before any eligible record); on the initialiser the
\* status line is empty.
C11_ReportsRoundedCurrOptVal ==
  /\ ReportsKeepState
  /\ [](call = "_get_exd_child_report_results_str"
          => IF cls = "OptInitialiser" THEN ret = <<>>
             ELSE /\ "curr_max" \in DOMAIN ret
                  /\ RoundedNumber(ret.curr_max, curr_opt_val))

\* the status line of a tracker whose two optima differ
C11_Witness ==
  /\ call = "_get_exd_child_report_results_str"
  /\ cls = "BlackboxOptimiser"
  /\ query_qinfos # <<>>
  /\ curr_opt_val > curr_true_opt_val
  /\ curr_true_opt_val > NegInf

\* --------------------------------------------------------------------- C12
Min(a, b) == IF a <= b THEN a ELSE b

\* the updates at the target fidelity among the most recent n
RecentAtTarget(n) ==
  {i \in DOMAIN query_qinfos :
     /\ i > Len(query_qinfos) - n
     /\ is_fidel_to_opt(EvalFidel(query_qinfos[i]))}

StatusLineCounts ==
  /\ ret.f2o = num_fidel_to_opt_calls
  /\ ret.f2o = Cardinality(RecentAtTarget(Len(query_qinfos)))
  /\ ret.in_window = Cardinality(RecentAtTarget(window_length))
  /\ ret.in_window <= Min(window_length, Len(query_qinfos))
  /\ ret.in_window <= ret.f2o

IsStatusLineMF == call = "_get_exd_child_report_results_str" /\ is_mf

\* C12 as stated: in multi-fidelity mode, after N updates, status_line
\* reports num_fidel_to_opt_calls and count/window_size, the count of the
\* updates at the target fidelity among the most recent min(20, N) and the
\* size min(20, N) of that window.
C12_WindowOfActualSize ==
  IsStatusLineMF =>
    /\ StatusLineCounts
    /\ ret.of_window = Min(window_length, Len(query_qinfos))

\* C12 amended: in multi-fidelity mode, after N updates, status_line
\* reports num_fidel_to_opt_calls and count/20: count is the number of
\* updates at the target fidelity among the most recent min(20, N), it
\* exceeds neither min(20, N) nor num_fidel_to_opt_calls, and the size
\* printed is always 20, also when the history is shorter.
C12_WindowOfTwenty ==
  IsStatusLineMF =>
    /\ StatusLineCounts
    /\ ret.of_window = window_length

\* a history longer than the window whose oldest entry was at the target
\* fidelity and whose window holds an entry that was not
C12_Witness ==
  /\ IsStatusLineMF
  /\ Len(query_qinfos) > window_length
  /\ ret.in_window < ret.f2o
  /\ ret.in_window < window_length

\* --------------------------------------------------------------------- C13
\* the last call was given a record lacking val or true_val
GivenLacking ==
  \/ /\ call = "_exd_child_update_history"
     /\ IsLacking(LastQuery)
  \/ /\ call = "_exd_child_handle_prev_evals"
     /\ \E i \in DOMAIN prev_qinfos : IsLacking(prev_qinfos[i])

\* C13: an update or a seeding given a record that lacks val or true_val
\* fails with an error handed to the caller, in both modes and at any
\* fidelity of the record; such a record is never accepted silently.
C13_LackingRecordRaises == GivenLacking => raised # "None"

\* --------------------------------------------------------------------- C14
\* C14: the initialiser always reports asynchronous mode as true, reports
\* itself multi-fidelity exactly when its function caller is, and
\* initialise() runs the driver of optimise with a budget of exactly zero
\* and returns what that driver returns.
C14_InitialiserEntryPoints ==
  cls = "OptInitialiser" =>
    /\ call = "is_asynchronous" => ret = TRUE
    /\ call = "is_an_mf_method" => ret = is_mf /\ ret = is_an_mf_method
    /\ call = "initialise" =>
         /\ ret.driver = "run_experiments"
         /\ ret.max_capital = 0
         /\ ret.result = <<curr_opt_val, curr_opt_point, history>>
         /\ Len(history.curr_opt_vals) = Len(query_qinfos)

\* initialise() has run a batch on a multi-fidelity caller
C14_Witness ==
  /\ cls = "OptInitialiser"
  /\ call = "initialise"
  /\ is_mf
  /\ Len(query_qinfos) = 2
  /\ curr_opt_val > NegInf

\* --------------------------------------------------------------------- C15
\* C15: an update that fails leaves the optimum, num_fidel_to_opt_calls and
\* every history sequence exactly as they were before the call.
C15_FailedUpdateKeepsState ==
  [][(IsUpdateStep /\ raised' # "None") => UNCHANGED ObjectFields]_vars

\* --------------------------------------------------------------------- C16
\* the record with the target fidelity written on it
AtTarget(qinfo) ==
  [point |-> qinfo.point, val |-> qinfo.val, true_val |-> qinfo.true_val,
   fidel |-> fidel_to_opt]

AllAtTarget(qinfos) ==
  [i \in DOMAIN qinfos |->
     IF HasAttr(qinfos[i], "fidel") THEN qinfos[i] ELSE AtTarget(qinfos[i])]

\* C16: in multi-fidelity mode a record without fidelity given to update or
\* to seeding is treated exactly as a record at the target fidelity: its
\* flag in query_at_fidel_to_opts is true, an update counts it in
\* num_fidel_to_opt_calls, and it may replace the optimum.
C16_UntaggedIsAtTarget ==
  /\ [][(is_mf /\ IsUpdateStep /\ ~HasAttr(LastQuery', "fidel"))
         => /\ Self' = UpdateHistory(Self, AtTarget(LastQuery'), is_mf)
            /\ history'.query_at_fidel_to_opts =
                  Append(history.query_at_fidel_to_opts, TRUE)
            /\ num_fidel_to_opt_calls' = num_fidel_to_opt_calls + 1
            /\ LastQuery'.val > curr_opt_val
                  => /\ curr_opt_val' = LastQuery'.val
                     /\ curr_opt_point' = LastQuery'.point]_vars
  /\ []((is_mf /\ JustSeeded)
         => Self = ExdChildHandlePrevEvals(DriverSetUp(is_mf),
                                           AllAtTarget(prev_qinfos), is_mf))

\* an update without fidelity has replaced an optimum seeded without
\* fidelity
C16_Witness ==
  /\ is_mf
  /\ Len(prev_qinfos) = 1 /\ Len(query_qinfos) = 1
  /\ ~HasAttr(prev_qinfos[1], "fidel")
  /\ ~HasAttr(LastQuery, "fidel")
  /\ LastQuery.val > prev_qinfos[1].val
  /\ curr_opt_val = LastQuery.val
  /\ curr_opt_point = LastQuery.point
  /\ num_fidel_to_opt_calls = 1

\* --------------------------------------------------------------------- C17
\* C17: the per-step history is append-only: an update adds exactly one
\* entry at the end of each per-step sequence and leaves the earlier
\* entries as they were; seeding, header and status_line leave every
\* per-step sequence as it was; no sequence ever shrinks.
C17_AppendOnly ==
  [][\A name \in PerStepNames :
       IF IsUpdateStep
       THEN /\ Len(history'[name]) = Len(history[name]) + 1
            /\ SubSeq(history'[name], 1, Len(history[name])) = history[name]
       ELSE history'[name] = history[name]]_vars

\* a header asked for after a seeding and an update whose snapshot differs
\* from its value
C17_Witness ==
  /\ call = "_get_exd_child_header_str"
  /\ prev_qinfos # <<>>
  /\ query_qinfos # <<>>
  /\ history.curr_opt_vals[1] # history.query_vals[1]

\* --------------------------------------------------------------------- C18
\* C18: right after set up, before any seeding or update, both optimal
\* values are -inf, both optimum points absent, every per-step sequence and
\* both prior-evaluation sequences of the history empty and, in
\* multi-fidelity mode, num_fidel_to_opt_calls 0; set up run again on a
\* used tracker restores this state.
C18_FreshAfterSetUp ==
  pc \in {"setup", "resetup"} =>
    /\ curr_opt_val = NegInf /\ curr_true_opt_val = NegInf
    /\ curr_opt_point = NonePoint /\ curr_true_opt_point = NonePoint
    /\ \A name \in PerStepNames : history[name] = <<>>
    /\ history.prev_eval_points = <<>> /\ history.prev_eval_vals = <<>>
    /\ is_mf => num_fidel_to_opt_calls = 0
    /\ history = DriverSetUp(is_mf).history

\* set up was run again after a seeding and an update that set the optimum
C18_Witness ==
  /\ pc = "resetup"
  /\ prev_qinfos # <<>>
  /\ query_qinfos # <<>>
  /\ Eligible(LastQuery)
  /\ is_mf

\* --------------------------------------------------------------------- C19
\* the orderings of a sequence of records
Orderings(qinfos) ==
  LET n == Len(qinfos)
      perms == {f \in [1..n -> 1..n] : \A i, j \in 1..n : f[i] = f[j] => i = j}
  IN  {[i \in 1..n |-> qinfos[f[i]]] : f \in perms}

\* the tracker as the seeding of this run left it
AfterSeeding ==
  IF prev_qinfos = <<>> THEN DriverSetUp(is_mf)
  ELSE ExdChildHandlePrevEvals(DriverSetUp(is_mf), prev_qinfos, is_mf)

\* the updates that hold the largest value of a field among the eligible ones
TiedAt(field, m) ==
  {i \in DOMAIN query_qinfos :
     Eligible(query_qinfos[i]) /\ query_qinfos[i][field] = m}

\* C19: delivered through update in any other order, the records of this
\* run give the same curr_opt_val, curr_true_opt_val and
\* num_fidel_to_opt_calls and per-step sequences of the same length; an
\* optimum point differs only when several eligible records tie at the
\* largest value.
C19_OrderIndependent ==
  LET seeded == AfterSeeding IN
    \A other \in Orderings(query_qinfos) :
      LET u == UpdateAll(seeded, other, is_mf) IN
        /\ u.curr_opt_val = curr_opt_val
        /\ u.curr_true_opt_val = curr_true_opt_val
        /\ is_mf => u.num_fidel_to_opt_calls = num_fidel_to_opt_calls
        /\ \A name \in PerStepNames :
             Len(u.history[name]) = Len(history[name])
        /\ u.curr_opt_point # curr_opt_point =>
             Cardinality(TiedAt("val", curr_opt_val)) >= 2
        /\ u.curr_true_opt_point # curr_true_opt_point =>
             Cardinality(TiedAt("true_val", curr_true_opt_val)) >= 2

\* two updates tie on val at different points and differ in true_val, the
\* larger one last: the other order sets each optimum at another step
C19_Witness ==
  /\ Len(query_qinfos) = 2
  /\ Eligible(query_qinfos[1]) /\ Eligible(query_qinfos[2])
  /\ query_qinfos[1].val = query_qinfos[2].val
  /\ query_qinfos[1].point # query_qinfos[2].point
  /\ query_qinfos[1].true_val < query_qinfos[2].true_val
  /\ curr_opt_point = query_qinfos[1].point
  /\ curr_true_opt_point = query_qinfos[2].point

\* --------------------------------------------------------------------- C20
\* a value and a point are those of one eligible record, or both unset
Paired(val, point, field, qinfos) ==
  \/ val = NegInf /\ point = NonePoint
  \/ \E i \in DOMAIN qinfos :
       /\ Eligible(qinfos[i])
       /\ qinfos[i][field] = val
       /\ qinfos[i].point = point

\* C20: in every state curr_opt_val and curr_opt_point are both unset or
\* the val and point of one eligible record processed by seeding or update,
\* likewise curr_true_opt_val and curr_true_opt_point with true_val, and
\* likewise the entries at each index of the running-optimum sequences with
\* the records processed up to that update.
C20_ValuePairedWithPoint ==
  Alive =>
    /\ Paired(curr_opt_val, curr_opt_point, "val", Processed)
    /\ Paired(curr_true_opt_val, curr_true_opt_point, "true_val", Processed)
    /\ \A i \in DOMAIN history.curr_opt_vals :
         Paired(history.curr_opt_vals[i], history.curr_opt_points[i],
                "val", UpTo(i))
    /\ \A i \in DOMAIN history.curr_true_opt_vals :
         Paired(history.curr_true_opt_vals[i], history.curr_true_opt_points[i],
                "true_val", UpTo(i))

\* the two optima sit at different points and the optimum point moved
\* between the two snapshots
C20_Witness ==
  /\ Len(history.curr_opt_points) = 2
  /\ curr_opt_point # NonePoint
  /\ curr_true_opt_point # NonePoint
  /\ curr_opt_point # curr_true_opt_point
  /\ history.curr_opt_points[1] # history.curr_opt_points[2]
  /\ history.curr_true_opt_points[1] = history.curr_true_opt_points[2]

====
